---- MODULE Spec2Model ----
(***************************************************************************)
(* calendar-intel: the business-day handlers of the two application        *)
(* variants (src/unnamed/part_000 and src/src/index.ts), the next-holiday  *)
(* lookup and the multi-country comparison, over the JavaScript Date       *)
(* semantics the handlers rely on.                                         *)
(*                                                                         *)
(* A Date value is an instant, here in whole hours since                   *)
(* 1970-01-01T00:00Z (every instant the handlers build from a YYYY-MM-DD   *)
(* string under a whole-hour time zone is a whole hour).  A date string    *)
(* "YYYY-MM-DD" is the tuple <<y, m, d>>; comparing two such strings is    *)
(* comparing the tuples lexicographically.                                 *)
(***************************************************************************)
EXTENDS Integers, Sequences, FiniteSets, TLC

(***************************************************************************)
(* Bounds of the model.                                                    *)
(***************************************************************************)
\* longest range handed to business-days, in days after startDate
MaxSpan == 4
\* longest reversed range handed to business-days, in days before startDate
MaxBack == 3
\* largest daysToAdd handed to add-business-days in the exhaustive runs
MaxAdd == 3
\* most countries handed to compare-countries (the schema allows 2..5)
MaxCountries == 3

\* number of hours in the code's day length 1000 * 60 * 60 * 24 ms
HoursPerDay == 24

(***************************************************************************)
(* The civil calendar of ECMAScript Date (proleptic Gregorian, UTC).       *)
(***************************************************************************)
IsLeapYear(y) == (y % 4 = 0 /\ y % 100 # 0) \/ y % 400 = 0

DaysInYear(y) == IF IsLeapYear(y) THEN 366 ELSE 365

DaysInMonth(y, m) ==
    IF m = 2 THEN (IF IsLeapYear(y) THEN 29 ELSE 28)
    ELSE IF m \in {4, 6, 9, 11} THEN 30 ELSE 31

\* DayFromYear(y): the day number of January 1 of year y (day 0 = 1970-01-01)
DayFromYear(y) ==
    365 * (y - 1970) + ((y - 1969) \div 4) - ((y - 1901) \div 100)
        + ((y - 1601) \div 400)

RECURSIVE YearDown(_, _)
YearDown(y, day) == IF DayFromYear(y) <= day THEN y ELSE YearDown(y - 1, day)

\* YearFromDay(day): the largest y with DayFromYear(y) <= day
YearFromDay(day) == YearDown(1971 + (day \div 365), day)

RECURSIVE DaysBeforeMonth(_, _)
DaysBeforeMonth(y, m) ==
    IF m <= 1 THEN 0 ELSE DaysBeforeMonth(y, m - 1) + DaysInMonth(y, m - 1)

RECURSIVE MonthUp(_, _, _)
MonthUp(y, m, dayInYear) ==
    IF dayInYear < DaysBeforeMonth(y, m + 1) THEN m ELSE MonthUp(y, m + 1, dayInYear)

\* the date string of a day number
CivilFromDay(day) ==
    LET y == YearFromDay(day)
        diy == day - DayFromYear(y)
        m == MonthUp(y, 1, diy)
    IN  <<y, m, diy - DaysBeforeMonth(y, m) + 1>>

\* the day number of a (valid) date string
DayFromCivil(s) == DayFromYear(s[1]) + DaysBeforeMonth(s[1], s[2]) + s[3] - 1

\* WeekDay of a day number, 0 = Sunday .. 6 = Saturday (1970-01-01 is a Thursday)
WeekDay(day) == (day + 4) % 7

\* string comparison of two date strings
StrLT(a, b) ==
    \/ a[1] < b[1]
    \/ a[1] = b[1] /\ a[2] < b[2]
    \/ a[1] = b[1] /\ a[2] = b[2] /\ a[3] < b[3]

StrGT(a, b) == StrLT(b, a)

(***************************************************************************)
(* The local time zone of the process.  getDay, getDate/setDate and        *)
(* getFullYear read and write LOCAL time; toISOString and the parse of a   *)
(* "...Z" or date-only string are UTC.                                     *)
(***************************************************************************)
UTC == [name |-> "UTC", std |-> 0, dst |-> 0, rule |-> "none"]
Tokyo == [name |-> "Asia/Tokyo", std |-> 9, dst |-> 9, rule |-> "none"]
NewYork == [name |-> "America/New_York", std |-> 0 - 5, dst |-> 0 - 4, rule |-> "US"]

Zones == {UTC, Tokyo, NewYork}

SundayOnOrAfter(day) == day + ((7 - WeekDay(day)) % 7)

\* US rule: second Sunday of March 02:00 standard time to first Sunday of
\* November 02:00 daylight time
DSTStart(z, y) == SundayOnOrAfter(DayFromCivil(<<y, 3, 8>>)) * HoursPerDay + 2 - z.std
DSTEnd(z, y) == SundayOnOrAfter(DayFromCivil(<<y, 11, 1>>)) * HoursPerDay + 2 - z.dst

InDST(z, t) ==
    /\ z.rule = "US"
    /\ LET y == YearFromDay(t \div HoursPerDay)
       IN  DSTStart(z, y) <= t /\ t < DSTEnd(z, y)

\* local time zone adjustment of the instant t
Offset(z, t) == IF InDST(z, t) THEN z.dst ELSE z.std

LocalTime(z, t) == t + Offset(z, t)

\* UTC(t_local): a repeated wall time is the earlier instant, a skipped one is
\* read with the offset before the transition
UTCFromLocal(z, w) ==
    IF Offset(z, w - z.dst) = z.dst THEN w - z.dst ELSE w - z.std

(***************************************************************************)
(* Date methods used by the handlers.                                      *)
(***************************************************************************)
\* parseDate: new Date(dateStr + 'T00:00:00Z'); new Date('YYYY-MM-DD') of the
\* index.ts variant is the same instant (a date-only string is read as UTC)
parseDate(dateStr) == DayFromCivil(dateStr) * HoursPerDay

\* formatDate: date.toISOString().split('T')[0], the UTC calendar date
formatDate(date) == CivilFromDay(date \div HoursPerDay)

\* date.getDay(), the weekday of the LOCAL calendar date
getDay(z, date) == WeekDay(LocalTime(z, date) \div HoursPerDay)

\* date.getFullYear(), the year of the LOCAL calendar date
getFullYear(z, date) == YearFromDay(LocalTime(z, date) \div HoursPerDay)

\* current.setDate(current.getDate() + n): same local wall-clock time n local
\* calendar days later
setDatePlus(z, date, n) == UTCFromLocal(z, LocalTime(z, date) + n * HoursPerDay)

isWeekend(z, date) == getDay(z, date) = 0 \/ getDay(z, date) = 6

\* parseInt(dateStr.split('-')[0])
yearOfString(dateStr) == dateStr[1]

(***************************************************************************)
(* The holiday provider (Nager.Date), an external service: the lists it    *)
(* serves for a country and a year.  A list may name one date twice (two   *)
(* holidays, or two regional entries, on the same day).                    *)
(***************************************************************************)
FixedHolidays(cc) ==
    CASE cc = "BR" -> << <<1, 1, "Confraternizacao Universal">>, <<11, 2, "Finados">>,
                         <<11, 15, "Proclamacao da Republica">>, <<12, 25, "Natal">> >>
      [] cc = "US" -> << <<1, 1, "New Year's Day">>, <<7, 4, "Independence Day">>,
                         <<10, 13, "Columbus Day">>, <<10, 13, "Indigenous Peoples' Day">>,
                         <<12, 25, "Christmas Day">> >>
      [] cc = "GB" -> << <<1, 1, "New Year's Day">>, <<12, 25, "Christmas Day">>,
                         <<12, 26, "Boxing Day">> >>
      [] OTHER -> << >>

\* every Monday..Friday of the year, in date order
WeekdaysOfYear(y) ==
    LET all == [i \in 1..DaysInYear(y) |-> DayFromYear(y) + i - 1]
        wk == SelectSeq(all, LAMBDA d : WeekDay(d) \in 1..5)
    IN  [i \in 1..Len(wk) |-> [date |-> CivilFromDay(wk[i]), name |-> "Feriado"]]

\* the response body of publicholidays/{year}/{country} when the fetch succeeds;
\* "ZZ" stands for a calendar that declares every weekday a holiday, any other
\* code for one that lists none
getHolidays(cc, y) ==
    IF cc = "ZZ" THEN WeekdaysOfYear(y)
    ELSE LET f == FixedHolidays(cc)
         IN  [i \in 1..Len(f) |-> [date |-> <<y, f[i][1], f[i][2]>>, name |-> f[i][3]]]

\* fetchJSON throws `API error: <status>` when the response is not ok
FetchErrors == {"API error: 404", "API error: 500"}

\* holidays.forEach(h => holidayDates.add(h.date))
addDates(set, holidays) == set \cup {holidays[i].date : i \in 1..Len(holidays)}

(***************************************************************************)
(* State.                                                                  *)
(***************************************************************************)
VARIABLES
    tz,               \* the process's local time zone
    op,               \* the entrypoint being served
    pc,               \* position of the handler
    country,          \* ctx.input.country.toUpperCase()
    startDate,        \* ctx.input.startDate
    endDate,          \* ctx.input.endDate
    daysToAdd,        \* ctx.input.daysToAdd
    fromDate,         \* ctx.input.fromDate (`today` of next-holiday)
    countries,        \* countryCodes of compare-countries
    inputDate,        \* ctx.input.date of is-holiday and week-info (NoDate: absent)
    now,              \* the clock reading new Date() gives when no date is sent
    year,             \* the year loop's counter
    endYear,          \* the year loop's upper limit
    holidayDates,     \* holidayDates / holidaySet
    current,          \* the Date walked by the day loop
    end,              \* the Date the tally loop stops after
    totalDays, businessDays, weekendDays, holidayDays,
    visited,          \* history: every dateStr the day loop has tested
    businessDaysAdded, totalDaysMoved,
    pending,          \* indices of the Promise.all fetches still in flight
    results,          \* results of Promise.all, by index
    arrivals,         \* history: indices in the order the fetches completed
    output            \* what the handler returned or threw

inputVars == <<tz, country, startDate, endDate, daysToAdd, fromDate, countries, inputDate, now>>
yearVars == <<year, endYear, holidayDates>>
tallyVars == <<end, totalDays, businessDays, weekendDays, holidayDays>>
addVars == <<businessDaysAdded, totalDaysMoved>>
concVars == <<pending, results, arrivals>>
vars == <<tz, op, pc, country, startDate, endDate, daysToAdd, fromDate, countries, inputDate, now,
          year, endYear, holidayDates, current, end, totalDays, businessDays,
          weekendDays, holidayDays, visited, businessDaysAdded, totalDaysMoved,
          pending, results, arrivals, output>>

NoDate == <<0, 0, 0>>
NoOutput == [kind |-> "none"]

Init ==
    /\ tz \in Zones
    /\ op = "none" /\ pc = "idle"
    /\ country = "" /\ startDate = NoDate /\ endDate = NoDate /\ daysToAdd = 0
    /\ fromDate = NoDate /\ countries = << >>
    /\ inputDate = NoDate /\ now = 0
    /\ year = 0 /\ endYear = 0 /\ holidayDates = {}
    /\ current = 0 /\ end = 0
    /\ totalDays = 0 /\ businessDays = 0 /\ weekendDays = 0 /\ holidayDays = 0
    /\ visited = << >>
    /\ businessDaysAdded = 0 /\ totalDaysMoved = 0
    /\ pending = {} /\ results = << >> /\ arrivals = << >>
    /\ output = NoOutput

(***************************************************************************)
(* Requests the model serves.                                              *)
(***************************************************************************)
\* start dates: around a Saturday holiday and the end of US daylight time
\* (2024-11-02, 2024-11-03), around a year boundary, around the start of US
\* daylight time (2025-03-09), and before a Friday holiday followed by a
\* Saturday holiday (2026-12-25, 2026-12-26)
StartDates ==
    { <<2024, 11, 1>>, <<2024, 11, 2>>, <<2024, 12, 30>>, <<2025, 1, 1>>, <<2025, 3, 8>>,
      <<2026, 12, 24>> }

TallyCountries == {"BR", "GB"}

\* endDate = startDate + k days, k < 0 being a reversed range
EndDates(s) == { CivilFromDay(DayFromCivil(s) + k) : k \in (0 - MaxBack)..MaxSpan }

(***************************************************************************)
(* business-days, part_000 variant ("A") and index.ts variant ("B").       *)
(***************************************************************************)
\* part_000 lines 250-252: three independent tests
BucketsA_NoPrecedence(weekend, holiday) ==
    [weekend |-> IF weekend THEN 1 ELSE 0,
     holiday |-> IF holiday THEN 1 ELSE 0,
     business |-> IF ~weekend /\ ~holiday THEN 1 ELSE 0]

BucketsA(weekend, holiday) ==
    [weekend |-> IF weekend THEN 1 ELSE 0,
     holiday |-> IF holiday /\ ~weekend THEN 1 ELSE 0,
     business |-> IF ~weekend /\ ~holiday THEN 1 ELSE 0]

\* index.ts lines 260-266: if / else if / else
BucketsB(weekend, holiday) ==
    IF weekend THEN [weekend |-> 1, holiday |-> 0, business |-> 0]
    ELSE IF holiday THEN [weekend |-> 0, holiday |-> 1, business |-> 0]
    ELSE [weekend |-> 0, holiday |-> 0, business |-> 1]

Buckets(variant, weekend, holiday) ==
    IF variant = "bdA" THEN BucketsA(weekend, holiday) ELSE BucketsB(weekend, holiday)

\* the years the handler fetches: from the strings (A), from the local year of
\* the parsed Dates (B)
TallyStartYear(variant, z, s) ==
    IF variant = "bdA" THEN yearOfString(s) ELSE getFullYear(z, parseDate(s))

BusinessDaysStart ==
    /\ pc = "idle"
    /\ \E variant \in {"bdA", "bdB"}, cc \in TallyCountries, s \in StartDates :
         \E e \in EndDates(s) :
            /\ op' = variant
            /\ country' = cc /\ startDate' = s /\ endDate' = e
            /\ year' = TallyStartYear(variant, tz, s)
            /\ endYear' = TallyStartYear(variant, tz, e)
    /\ holidayDates' = {}
    /\ pc' = "fetch"
    /\ UNCHANGED <<tz, inputDate, now, daysToAdd, fromDate, countries, current, tallyVars, visited,
                   addVars, concVars, output>>

\* one pass of the year loop whose fetch succeeds
BusinessDaysFetchOk ==
    /\ op \in {"bdA", "bdB"} /\ pc = "fetch" /\ year <= endYear
    /\ holidayDates' = addDates(holidayDates, getHolidays(country, year))
    /\ year' = year + 1
    /\ UNCHANGED <<op, pc, inputVars, endYear, current, tallyVars, visited, addVars,
                   concVars, output>>

\* one pass whose fetch throws: the part_000 handler rejects, the index.ts
\* handler catches and goes on
BusinessDaysFetchFail ==
    /\ op \in {"bdA", "bdB"} /\ pc = "fetch" /\ year <= endYear
    /\ \E err \in FetchErrors :
        IF op = "bdA"
        THEN /\ pc' = "failed"
             /\ output' = [kind |-> "error", message |-> err]
             /\ year' = year
        ELSE /\ pc' = pc
             /\ output' = output
             /\ year' = year + 1
    /\ UNCHANGED <<op, inputVars, endYear, holidayDates, current, tallyVars, visited,
                   addVars, concVars>>

\* a handler that would tally the range from its earlier to its later date
tallyBounds_Reversed(s, e) ==
    IF StrLT(e, s) THEN [current |-> parseDate(e), end |-> parseDate(s)]
    ELSE [current |-> parseDate(s), end |-> parseDate(e)]

\* const current = parseDate(startDate); const end = parseDate(endDate);
tallyBounds(s, e) == [current |-> parseDate(s), end |-> parseDate(e)]

\* counters and the two Dates, once the year loop is over
BusinessDaysInitLoop ==
    /\ op \in {"bdA", "bdB"} /\ pc = "fetch" /\ year > endYear
    /\ businessDays' = 0 /\ totalDays' = 0 /\ weekendDays' = 0 /\ holidayDays' = 0
    /\ current' = tallyBounds(startDate, endDate).current
    /\ end' = tallyBounds(startDate, endDate).end
    /\ pc' = "loop"
    /\ UNCHANGED <<op, inputVars, yearVars, visited, addVars, concVars, output>>

\* one iteration of while (current <= end)
BusinessDaysIter ==
    /\ op \in {"bdA", "bdB"} /\ pc = "loop" /\ current <= end
    /\ LET dateStr == formatDate(current)
           b == Buckets(op, isWeekend(tz, current), dateStr \in holidayDates)
       IN  /\ totalDays' = totalDays + 1
           /\ weekendDays' = weekendDays + b.weekend
           /\ holidayDays' = holidayDays + b.holiday
           /\ businessDays' = businessDays + b.business
           /\ visited' = Append(visited, dateStr)
    /\ current' = setDatePlus(tz, current, 1)
    /\ UNCHANGED <<op, pc, inputVars, yearVars, end, addVars, concVars, output>>

BusinessDaysReturn ==
    /\ op \in {"bdA", "bdB"} /\ pc = "loop" /\ current > end
    /\ output' = [kind |-> "tally", country |-> country,
                  startDate |-> formatDate(parseDate(startDate)),
                  endDate |-> formatDate(parseDate(endDate)),
                  businessDays |-> businessDays, totalDays |-> totalDays,
                  weekendDays |-> weekendDays, holidayDays |-> holidayDays]
    /\ pc' = "done"
    /\ UNCHANGED <<op, inputVars, yearVars, current, tallyVars, visited, addVars, concVars>>

(***************************************************************************)
(* add-business-days (part_000).                                           *)
(***************************************************************************)
\* z.number().int().min(1).max(365)
MaxDaysToAdd == 365

\* for (let year = startYear; year <= startYear + 2; year++)
HorizonYears == 2

AddCountries == {"BR", "GB"}

\* the requests served: every start date with 1..MaxAdd days, and the longest
\* walk the schema admits
AddRequests ==
    ({ <<cc, s, n>> : cc \in AddCountries, s \in StartDates, n \in 1..MaxAdd }
        \cup { <<"BR", <<2024, 12, 30>>, MaxDaysToAdd>> })

\* the requests of the horizon runs: the longest walks from the last days of a
\* year, and a walk through the calendar that has no business day inside the
\* fetched years
HorizonRequests ==
    ({ <<cc, s, MaxDaysToAdd>> : cc \in AddCountries, s \in {<<2024, 12, 30>>, <<2024, 12, 31>>} }
        \cup { <<"ZZ", <<2024, 12, 30>>, 1>> })

\* the day test of the walk, line 358
isBusinessDate(z, date, holidays) == ~isWeekend(z, date) /\ ~(formatDate(date) \in holidays)

\* while (businessDaysAdded < daysToAdd)
walkGoesOn_LE(added, n) == added <= n

walkGoesOn(added, n) == added < n

AddStartFrom(requests) ==
    /\ pc = "idle"
    /\ \E r \in requests :
        /\ country' = r[1] /\ startDate' = r[2] /\ daysToAdd' = r[3]
        /\ year' = yearOfString(r[2])
        /\ endYear' = yearOfString(r[2]) + HorizonYears
    /\ op' = "add"
    /\ holidayDates' = {}
    /\ pc' = "fetch"
    /\ UNCHANGED <<tz, inputDate, now, endDate, fromDate, countries, current, tallyVars, visited,
                   addVars, concVars, output>>

AddStart == AddStartFrom(AddRequests)

AddStartHorizon == AddStartFrom(HorizonRequests)

AddFetchOk ==
    /\ op = "add" /\ pc = "fetch" /\ year <= endYear
    /\ holidayDates' = addDates(holidayDates, getHolidays(country, year))
    /\ year' = year + 1
    /\ UNCHANGED <<op, pc, inputVars, endYear, current, tallyVars, visited, addVars,
                   concVars, output>>

\* catch (e) { /* Year might not be available */ }
AddFetchFail ==
    /\ op = "add" /\ pc = "fetch" /\ year <= endYear
    /\ year' = year + 1
    /\ UNCHANGED <<op, pc, inputVars, endYear, holidayDates, current, tallyVars, visited,
                   addVars, concVars, output>>

AddInitLoop ==
    /\ op = "add" /\ pc = "fetch" /\ year > endYear
    /\ current' = parseDate(startDate)
    /\ businessDaysAdded' = 0 /\ totalDaysMoved' = 0
    /\ pc' = "loop"
    /\ UNCHANGED <<op, inputVars, yearVars, tallyVars, visited, concVars, output>>

AddIter ==
    /\ op = "add" /\ pc = "loop" /\ walkGoesOn(businessDaysAdded, daysToAdd)
    /\ current' = setDatePlus(tz, current, 1)
    /\ totalDaysMoved' = totalDaysMoved + 1
    /\ businessDaysAdded' =
          IF isBusinessDate(tz, current', holidayDates)
          THEN businessDaysAdded + 1 ELSE businessDaysAdded
    /\ UNCHANGED <<op, pc, inputVars, yearVars, tallyVars, visited, concVars, output>>

AddReturn ==
    /\ op = "add" /\ pc = "loop" /\ ~walkGoesOn(businessDaysAdded, daysToAdd)
    /\ output' = [kind |-> "added", country |-> country, startDate |-> startDate,
                  businessDaysAdded |-> daysToAdd, resultDate |-> formatDate(current),
                  calendarDaysMoved |-> totalDaysMoved]
    /\ pc' = "done"
    /\ UNCHANGED <<op, inputVars, yearVars, current, tallyVars, visited, addVars, concVars>>

(***************************************************************************)
(* Promise.all over provider fetches: next-holiday (two years of one       *)
(* country) and compare-countries (one year of 2..5 countries).  The       *)
(* fetches complete in any order.                                          *)
(***************************************************************************)
\* the fetch behind the i-th promise handed to Promise.all
FetchOf(i) ==
    IF op = "next" THEN getHolidays(country, year + i - 1)
    ELSE getHolidays(countries[i], year)

\* Promise.all keeps each value at the index of its promise; k is the position
\* of the completion in arrival order
PlaceResult_ByArrival(res, i, k, value) == [res EXCEPT ![k] = value]

PlaceResult(res, i, k, value) == [res EXCEPT ![i] = value]

\* one fetch completes with a list
PromiseFulfil ==
    /\ op \in {"next", "cmp"} /\ pc = "await"
    /\ \E i \in pending :
        /\ results' = PlaceResult(results, i, Len(arrivals) + 1, FetchOf(i))
        /\ pending' = pending \ {i}
        /\ arrivals' = Append(arrivals, i)
    /\ UNCHANGED <<op, pc, inputVars, yearVars, current, tallyVars, visited, addVars, output>>

\* one fetch throws: Promise.all rejects with that error and the handler with it
PromiseReject ==
    /\ op \in {"next", "cmp"} /\ pc = "await"
    /\ \E i \in pending, err \in FetchErrors :
        /\ pending' = pending \ {i}
        /\ arrivals' = Append(arrivals, i)
        /\ output' = [kind |-> "error", message |-> err]
    /\ pc' = "failed"
    /\ UNCHANGED <<op, inputVars, yearVars, current, tallyVars, visited, addVars, results>>

(***************************************************************************)
(* next-holiday (part_000).                                                *)
(***************************************************************************)
NextCountries == {"US", "GB", "AQ"}

FromDates == { <<2024, 12, 25>>, <<2024, 12, 26>>, <<2025, 10, 12>>, <<2025, 12, 31>> }

\* .filter(h => h.date > today)
isFuture_GE(h, today) == ~StrLT(h.date, today)

isFuture(h, today) == StrGT(h.date, today)

\* .sort((a, b) => a.date.localeCompare(b.date)): a stable sort by date
RECURSIVE InsertByDate(_, _)
InsertByDate(sorted, h) ==
    IF sorted = << >> THEN <<h>>
    ELSE IF StrLT(h.date, sorted[Len(sorted)].date)
         THEN Append(InsertByDate(SubSeq(sorted, 1, Len(sorted) - 1), h), sorted[Len(sorted)])
         ELSE Append(sorted, h)

RECURSIVE SortByDate(_)
SortByDate(list) ==
    IF list = << >> THEN << >>
    ELSE InsertByDate(SortByDate(SubSeq(list, 1, Len(list) - 1)), list[Len(list)])

\* Math.ceil(a / b) for b > 0
Ceil(a, b) == 0 - ((0 - a) \div b)

\* Math.ceil((parseDate(next) - parseDate(today)) / (1000 * 60 * 60 * 24))
daysUntil_Inclusive(next, today) == Ceil(parseDate(next) - parseDate(today), HoursPerDay) + 1

daysUntil(next, today) == Ceil(parseDate(next) - parseDate(today), HoursPerDay)

Null == [null |-> TRUE]

\* lines 176-211, from the two fetched lists to the response
nextHolidayOutput(cc, today, lists) ==
    LET allHolidays == lists[1] \o lists[2]
        futureHolidays == SortByDate(SelectSeq(allHolidays, LAMBDA h : isFuture(h, today)))
    IN  IF futureHolidays = << >>
        THEN [kind |-> "next", country |-> cc, fromDate |-> today, nextHoliday |-> Null]
        ELSE [kind |-> "next", country |-> cc, fromDate |-> today,
              nextHoliday |-> [date |-> futureHolidays[1].date,
                               name |-> futureHolidays[1].name,
                               daysUntil |-> daysUntil(futureHolidays[1].date, today)]]

NextHolidayStart ==
    /\ pc = "idle"
    /\ \E cc \in NextCountries, today \in FromDates :
        /\ country' = cc /\ fromDate' = today
        /\ year' = yearOfString(today)
    /\ op' = "next"
    /\ pending' = {1, 2}
    /\ results' = << << >>, << >> >>
    /\ arrivals' = << >>
    /\ pc' = "await"
    /\ UNCHANGED <<tz, inputDate, now, startDate, endDate, daysToAdd, countries, endYear, holidayDates,
                   current, tallyVars, visited, addVars, output>>

NextHolidayReturn ==
    /\ op = "next" /\ pc = "await" /\ pending = {}
    /\ output' = nextHolidayOutput(country, fromDate, results)
    /\ pc' = "done"
    /\ UNCHANGED <<op, inputVars, yearVars, current, tallyVars, visited, addVars, concVars>>

(***************************************************************************)
(* compare-countries (part_000).                                           *)
(***************************************************************************)
CompareCountries == {"US", "GB", "BR"}

CompareYears == {2025}

\* z.array(...).min(2)
MinCountries == 2

CountryLists == UNION { [1..n -> CompareCountries] : n \in MinCountries..MaxCountries }

\* results.flatMap(r => r.holidays.map(h => h.date))
RECURSIVE allDatesOf(_)
allDatesOf(res) ==
    IF res = << >> THEN << >>
    ELSE allDatesOf(SubSeq(res, 1, Len(res) - 1))
            \o [i \in 1..Len(res[Len(res)].holidays) |-> res[Len(res)].holidays[i].date]

\* the reduce of lines 300-303: occurrences of each date in allDates
dateCounts(allDates) ==
    [d \in {allDates[i] : i \in DOMAIN allDates} |->
        Cardinality({i \in DOMAIN allDates : allDates[i] = d})]

\* Array.prototype.sort() on date strings
RECURSIVE sortStrings(_)
sortStrings(set) ==
    IF set = {} THEN << >>
    ELSE LET m == CHOOSE x \in set : \A y \in set : ~StrLT(y, x)
         IN  <<m>> \o sortStrings(set \ {m})

\* lines 305-308
sharedHolidayDates(res) ==
    LET counts == dateCounts(allDatesOf(res))
    IN  sortStrings({d \in DOMAIN counts : counts[d] > 1})

\* results.reduce((max, r) => r.totalHolidays > max.totalHolidays ? r : max)
RECURSIVE reduceMost(_)
reduceMost(res) ==
    IF Len(res) = 1 THEN res[1]
    ELSE LET max == reduceMost(SubSeq(res, 1, Len(res) - 1))
             r == res[Len(res)]
         IN  IF r.totalHolidays > max.totalHolidays THEN r ELSE max

RECURSIVE reduceFewest(_)
reduceFewest(res) ==
    IF Len(res) = 1 THEN res[1]
    ELSE LET min == reduceFewest(SubSeq(res, 1, Len(res) - 1))
             r == res[Len(res)]
         IN  IF r.totalHolidays < min.totalHolidays THEN r ELSE min

\* the value of the i-th mapped promise, lines 287-294
countryResult(cc, holidays) ==
    [country |-> cc, totalHolidays |-> Len(holidays), holidays |-> holidays]

\* lines 299-321, from the fetched lists (in Promise.all's order) to the response
compareOutput(codes, y, lists) ==
    LET res == [i \in 1..Len(codes) |-> countryResult(codes[i], lists[i])]
    IN  [kind |-> "compare", year |-> y, countries |-> res,
         sharedHolidayDates |-> sharedHolidayDates(res),
         mostHolidays |-> reduceMost(res).country,
         fewestHolidays |-> reduceFewest(res).country]

CompareStart ==
    /\ pc = "idle"
    /\ \E codes \in CountryLists, y \in CompareYears :
        /\ countries' = codes /\ year' = y
        /\ pending' = DOMAIN codes
        /\ results' = [i \in DOMAIN codes |-> << >>]
    /\ op' = "cmp"
    /\ arrivals' = << >>
    /\ pc' = "await"
    /\ UNCHANGED <<tz, inputDate, now, country, startDate, endDate, daysToAdd, fromDate, endYear,
                   holidayDates, current, tallyVars, visited, addVars, output>>

CompareReturn ==
    /\ op = "cmp" /\ pc = "await" /\ pending = {}
    /\ output' = compareOutput(countries, year, results)
    /\ pc' = "done"
    /\ UNCHANGED <<op, inputVars, yearVars, current, tallyVars, visited, addVars, concVars>>

(***************************************************************************)
(* week-info (index.ts): pure date arithmetic on one Date, the one parsed   *)
(* from ctx.input.date or, without it, the clock's.  fetchedAt, a second   *)
(* clock reading copied to the output, is left out.                        *)
(***************************************************************************)
\* largest number of days after a 22 December served to week-info
MaxWeekSpan == 20

WeekYears == 2019..2026

\* every day from 22 December to the middle of January over years whose
\* 1 January falls on each weekday, and the days US daylight time changes
WeekDates ==
    { CivilFromDay(DayFromCivil(<<y, 12, 22>>) + k) : y \in WeekYears, k \in 0..MaxWeekSpan }
        \cup { <<2024, 6, 30>>, <<2024, 11, 3>>, <<2025, 3, 9>> }

\* hours after UTC midnight at which the clock is read
NowHours == {4, 13, 23}

\* date.getFullYear(), date.getMonth() + 1, date.getDate(): the LOCAL calendar date
localDate(z, date) == CivilFromDay(LocalTime(z, date) \div HoursPerDay)

\* getISOWeek: the local calendar date rebuilt as a UTC Date, moved to the
\* Thursday of its week, and the weeks counted from 1 January of that year
getISOWeek(z, date) ==
    LET d == DayFromCivil(localDate(z, date)) * HoursPerDay
        utcDay == WeekDay(d \div HoursPerDay)
        dayNum == IF utcDay = 0 THEN 7 ELSE utcDay
        shifted == d + (4 - dayNum) * HoursPerDay
        yearStart == DayFromYear(YearFromDay(shifted \div HoursPerDay)) * HoursPerDay
    IN  Ceil(((shifted - yearStart) \div HoursPerDay) + 1, 7)

\* getDayOfYear: whole days since new Date(year, 0, 0), the local midnight of
\* 31 December of the year before
getDayOfYear(z, date) ==
    LET start == UTCFromLocal(z, (DayFromYear(getFullYear(z, date)) - 1) * HoursPerDay)
    IN  (date - start) \div HoursPerDay

DayNames ==
    <<"Sunday", "Monday", "Tuesday", "Wednesday", "Thursday", "Friday", "Saturday">>

weekInfoOutput(z, date) ==
    LET dayOfWeek == getDay(z, date)
        weekStart == setDatePlus(z, date, (IF dayOfWeek = 0 THEN 0 - 6 ELSE 1) - dayOfWeek)
        weekEnd == setDatePlus(z, weekStart, 6)
        endOfYear == UTCFromLocal(z, (DayFromYear(getFullYear(z, date) + 1) - 1) * HoursPerDay)
    IN  [kind |-> "week",
         date |-> formatDate(date),
         dayOfWeek |-> DayNames[dayOfWeek + 1],
         dayOfYear |-> getDayOfYear(z, date),
         daysRemainingInYear |-> Ceil(endOfYear - date, HoursPerDay),
         isoWeek |-> getISOWeek(z, date),
         isoYear |-> getFullYear(z, date),
         weekStart |-> formatDate(weekStart),
         weekEnd |-> formatDate(weekEnd),
         quarter |-> Ceil(localDate(z, date)[2], 3),
         isWeekend |-> isWeekend(z, date),
         isLeapYear |-> IsLeapYear(getFullYear(z, date))]

\* const date = new Date(ctx.input.date)
WeekInfoOfDate ==
    /\ pc = "idle"
    /\ \E s \in WeekDates :
        /\ inputDate' = s
        /\ output' = weekInfoOutput(tz, parseDate(s))
    /\ op' = "week" /\ pc' = "done"
    /\ UNCHANGED <<tz, country, startDate, endDate, daysToAdd, fromDate, countries, now,
                   yearVars, current, tallyVars, visited, addVars, concVars>>

\* const date = new Date()
WeekInfoOfNow ==
    /\ pc = "idle"
    /\ \E s \in WeekDates, h \in NowHours :
        /\ now' = parseDate(s) + h
        /\ output' = weekInfoOutput(tz, parseDate(s) + h)
    /\ op' = "week" /\ pc' = "done"
    /\ UNCHANGED <<tz, country, startDate, endDate, daysToAdd, fromDate, countries, inputDate,
                   yearVars, current, tallyVars, visited, addVars, concVars>>

(***************************************************************************)
(* is-holiday (part_000).  fetchedAt, a clock reading copied to the        *)
(* output, is left out.                                                    *)
(***************************************************************************)
IsHolidayCountries == {"BR", "GB"}

\* the start dates and the days after them
IsHolidayDates == { CivilFromDay(DayFromCivil(s) + k) : s \in StartDates, k \in 0..MaxSpan }

\* holidays.find(h => h.date === ctx.input.date): the first match, or none
findHoliday(holidays, dateStr) ==
    LET hits == { i \in 1..Len(holidays) : holidays[i].date = dateStr }
    IN  IF hits = {} THEN Null
        ELSE holidays[CHOOSE i \in hits : \A j \in hits : i <= j]

isHolidayOutput(z, cc, dateStr, holidays) ==
    LET holiday == findHoliday(holidays, dateStr)
        dateObj == parseDate(dateStr)
    IN  [kind |-> "isHoliday",
         country |-> cc,
         date |-> dateStr,
         isHoliday |-> holiday # Null,
         isWeekend |-> isWeekend(z, dateObj),
         isBusinessDay |-> holiday = Null /\ ~isWeekend(z, dateObj),
         holidayDetails |-> IF holiday # Null THEN [name |-> holiday.name] ELSE Null]

IsHolidayStart ==
    /\ pc = "idle"
    /\ \E cc \in IsHolidayCountries, s \in IsHolidayDates :
        /\ country' = cc /\ inputDate' = s
        /\ year' = yearOfString(s)
    /\ op' = "isHoliday" /\ pc' = "fetch"
    /\ UNCHANGED <<tz, startDate, endDate, daysToAdd, fromDate, countries, now, endYear,
                   holidayDates, current, tallyVars, visited, addVars, concVars, output>>

\* the fetch answered
IsHolidayReturn ==
    /\ op = "isHoliday" /\ pc = "fetch"
    /\ output' = isHolidayOutput(tz, country, inputDate, getHolidays(country, year))
    /\ pc' = "done"
    /\ UNCHANGED <<op, inputVars, yearVars, current, tallyVars, visited, addVars, concVars>>

\* the fetch threw: the handler rejects
IsHolidayReject ==
    /\ op = "isHoliday" /\ pc = "fetch"
    /\ \E err \in FetchErrors : output' = [kind |-> "error", message |-> err]
    /\ pc' = "failed"
    /\ UNCHANGED <<op, inputVars, yearVars, current, tallyVars, visited, addVars, concVars>>

Next ==
    \/ BusinessDaysStart
    \/ BusinessDaysFetchOk
    \/ BusinessDaysFetchFail
    \/ BusinessDaysInitLoop
    \/ BusinessDaysIter
    \/ BusinessDaysReturn
    \/ AddStart
    \/ AddFetchOk
    \/ AddFetchFail
    \/ AddInitLoop
    \/ AddIter
    \/ AddReturn
    \/ NextHolidayStart
    \/ CompareStart
    \/ PromiseFulfil
    \/ PromiseReject
    \/ NextHolidayReturn
    \/ CompareReturn
    \/ WeekInfoOfDate
    \/ WeekInfoOfNow
    \/ IsHolidayStart
    \/ IsHolidayReturn
    \/ IsHolidayReject

Spec == Init /\ [][Next]_vars

\* the add-business-days handler alone, on the horizon requests
NextHorizon ==
    \/ AddStartHorizon
    \/ AddFetchOk
    \/ AddFetchFail
    \/ AddInitLoop
    \/ AddIter
    \/ AddReturn

SpecHorizon == Init /\ [][NextHorizon]_vars

\* what one iteration of the walk does to the loop's variables: one more day
\* moved, the Date a local calendar day later (23 to 25 hours), at most one
\* more business day.  Every AddIter step is a WalkStep step, and from a
\* state of the walk AddIter is the only step of the handler that is one.
WalkStep ==
    /\ op = "add" /\ pc = "loop" /\ walkGoesOn(businessDaysAdded, daysToAdd)
    /\ totalDaysMoved' = totalDaysMoved + 1
    /\ current' \in (current + HoursPerDay - 1)..(current + HoursPerDay + 1)
    /\ businessDaysAdded' \in {businessDaysAdded, businessDaysAdded + 1}
    /\ UNCHANGED <<op, pc, inputVars, yearVars, tallyVars, visited, concVars, output>>

\* the add-business-days handler on all its requests.  The day walk is
\* synchronous code with no await in it: once entered, the engine runs each
\* iteration and the return that follows the loop, which is what the two
\* fairness conditions say.  The fetches before it are awaited and get none.
NextAdd ==
    \/ AddStart
    \/ AddStartHorizon
    \/ AddFetchOk
    \/ AddFetchFail
    \/ AddInitLoop
    \/ AddIter
    \/ AddReturn

SpecAddFair == Init /\ [][NextAdd]_vars /\ WF_vars(WalkStep) /\ WF_vars(AddReturn)

(***************************************************************************)
(* The civil calendar the properties are stated over: the weekday of a     *)
(* date string itself, and the days of an inclusive range.                 *)
(***************************************************************************)
IsTally == op \in {"bdA", "bdB"}

CalendarWeekend(s) == WeekDay(DayFromCivil(s)) \in {0, 6}

InclusiveDays(s, e) == DayFromCivil(e) - DayFromCivil(s) + 1

DaysOfRange(s, e) == [i \in 1..InclusiveDays(s, e) |-> CivilFromDay(DayFromCivil(s) + i - 1)]

CountVisited(P(_)) == Cardinality({i \in DOMAIN visited : P(visited[i])})

\* C1: in both business-days variants totalDays = businessDays + weekendDays +
\* holidayDays holds in every state of the day loop (after every iteration) and
\* in the returned tally.
C1_TallySum ==
    IsTally =>
        /\ totalDays = businessDays + weekendDays + holidayDays
        /\ output.kind = "tally" =>
              output.totalDays = output.businessDays + output.weekendDays + output.holidayDays

\* C1 witness: mid-loop, after a holiday that fell on a Saturday or Sunday, with
\* all three buckets used
C1_Witness ==
    /\ op = "bdA" /\ pc = "loop" /\ tz = UTC
    /\ businessDays >= 1 /\ weekendDays >= 1 /\ holidayDays >= 1
    /\ \E i \in DOMAIN visited : CalendarWeekend(visited[i]) /\ visited[i] \in holidayDates

\* C2: for startDate <= endDate the tally visits each calendar day of
\* [startDate, endDate] exactly once, so totalDays is the inclusive day count.
C2_VisitsEachDayOnce ==
    (IsTally /\ pc = "done" /\ ~StrLT(endDate, startDate)) =>
        /\ output.totalDays = InclusiveDays(startDate, endDate)
        /\ visited = DaysOfRange(startDate, endDate)

\* C3: a date that is a Saturday or Sunday and also in the holiday set counts as
\* a weekend day only; every visited day is in exactly one of the three buckets.
C3_WeekendPrecedence ==
    IsTally =>
        /\ weekendDays = CountVisited(LAMBDA s : CalendarWeekend(s))
        /\ holidayDays = CountVisited(LAMBDA s : ~CalendarWeekend(s) /\ s \in holidayDates)
        /\ businessDays = CountVisited(LAMBDA s : ~CalendarWeekend(s) /\ ~(s \in holidayDates))

(***************************************************************************)
(* The walk backward: the forward loop mirrored, one local calendar day    *)
(* back at a time, counting the days that pass the forward walk's day test *)
(***************************************************************************)
RECURSIVE BackWalk(_, _, _, _)
BackWalk(z, date, n, holidays) ==
    IF n = 0 THEN date
    ELSE LET prev == setDatePlus(z, date, 0 - 1)
         IN  BackWalk(z, prev, IF isBusinessDate(z, prev, holidays) THEN n - 1 ELSE n,
                      holidays)

AddDone == op = "add" /\ pc = "done"

\* the date the walk backward ends on, started from the returned resultDate
backFromResult ==
    formatDate(BackWalk(tz, parseDate(output.resultDate), daysToAdd, holidayDates))

\* the start date passes the walk's own day test
startIsBusinessDate == isBusinessDate(tz, parseDate(startDate), holidayDates)

C4_WitnessShifted ==
    /\ AddDone /\ startIsBusinessDate /\ current # parseDate(output.resultDate)
    /\ StrLT(backFromResult, startDate)

BusinessDaysBetween(s, r, holidays) ==
    Cardinality({d \in (DayFromCivil(s) + 1)..DayFromCivil(r) :
                    ~CalendarWeekend(CivilFromDay(d)) /\ ~(CivilFromDay(d) \in holidays)})

\* C5: the result is a business day (no Saturday or Sunday, not in the holiday
\* set), exactly daysToAdd business days lie in (startDate, resultDate], and
\* calendarDaysMoved is the calendar distance resultDate - startDate.
C5_ResultIsNthBusinessDay ==
    AddDone =>
        /\ ~CalendarWeekend(output.resultDate)
        /\ ~(output.resultDate \in holidayDates)
        /\ BusinessDaysBetween(startDate, output.resultDate, holidayDates) = daysToAdd
        /\ output.calendarDaysMoved = DayFromCivil(output.resultDate) - DayFromCivil(startDate)

\* C6: every date the add-business-days walk tests lies in a year of the
\* fetched window [startYear, startYear + 2].
C6_WalkStaysInWindow ==
    (op = "add" /\ pc \in {"loop", "done"} /\ totalDaysMoved > 0) =>
        yearOfString(formatDate(current)) \in
            yearOfString(startDate)..(yearOfString(startDate) + HorizonYears)

(***************************************************************************)
(* next-holiday and compare-countries, stated over the provider's lists.   *)
(***************************************************************************)
NextDone == op = "next" /\ pc = "done"

\* the dates of the holidays of fromDate's year and of the following year
TwoYearDates ==
    LET a == getHolidays(country, yearOfString(fromDate))
        b == getHolidays(country, yearOfString(fromDate) + 1)
    IN  {a[i].date : i \in DOMAIN a} \cup {b[i].date : i \in DOMAIN b}

LaterDates == {d \in TwoYearDates : StrGT(d, fromDate)}

\* C7: next-holiday returns the holiday with the smallest date strictly after
\* fromDate among the holidays of fromDate's year and the next, and returns
\* nextHoliday = null exactly when none of them is later than fromDate.
C7_NextIsEarliestLater ==
    NextDone =>
        /\ (output.nextHoliday = Null) <=> (LaterDates = {})
        /\ output.nextHoliday # Null =>
              /\ output.nextHoliday.date \in LaterDates
              /\ \A d \in LaterDates : ~StrLT(d, output.nextHoliday.date)

\* C7 witness: fromDate is itself a holiday and a later holiday is returned
C7_Witness ==
    /\ NextDone /\ fromDate \in TwoYearDates
    /\ output.nextHoliday # Null /\ StrGT(output.nextHoliday.date, fromDate)

\* C7 witness of the other case: nothing later in the two years, null returned
C7_WitnessNone == NextDone /\ LaterDates = {} /\ output.nextHoliday = Null

\* C8 as claimed: daysUntil is the inclusive day count from fromDate to the
\* holiday, both end days counted.
C8_DaysUntilInclusive ==
    (NextDone /\ output.nextHoliday # Null) =>
        output.nextHoliday.daysUntil = InclusiveDays(fromDate, output.nextHoliday.date)

\* C8 amended: daysUntil is the calendar-day difference holiday date - fromDate,
\* fromDate itself not counted (6 from 2024-12-26 to 2025-01-01), at least 1.
C8_DaysUntilDifference ==
    (NextDone /\ output.nextHoliday # Null) =>
        /\ output.nextHoliday.daysUntil =
              DayFromCivil(output.nextHoliday.date) - DayFromCivil(fromDate)
        /\ output.nextHoliday.daysUntil >= 1

\* C8 witness: the spec's scenario, US from 2024-12-26 to 2025-01-01
C8_Witness ==
    /\ NextDone /\ country = "US" /\ fromDate = <<2024, 12, 26>>
    /\ output.nextHoliday # Null
    /\ output.nextHoliday.date = <<2025, 1, 1>>
    /\ output.nextHoliday.daysUntil = 6

CompareDone == op = "cmp" /\ pc = "done"

DatesOfList(i) ==
    LET l == getHolidays(countries[i], year) IN {l[k].date : k \in DOMAIN l}

IsSortedNoDup(seq) == \A i \in 1..(Len(seq) - 1) : StrLT(seq[i], seq[i + 1])

\* C9: sharedHolidayDates is sorted ascending without duplicates and holds a
\* date iff the date is in the holiday lists of more than one of the compared
\* countries; a date listed several times by one country only is not shared.
C9_SharedInMoreThanOneList ==
    CompareDone =>
        /\ IsSortedNoDup(output.sharedHolidayDates)
        /\ \A d \in UNION {DatesOfList(i) : i \in DOMAIN countries} :
              (\E k \in DOMAIN output.sharedHolidayDates : output.sharedHolidayDates[k] = d)
                <=> Cardinality({i \in DOMAIN countries : d \in DatesOfList(i)}) > 1

\* C10: the output of compare-countries and of next-holiday is the one computed
\* from the provider's lists taken in input order, whatever the order in which
\* the fetches completed; the per-country results are in input order.
C10_OutputIgnoresArrivalOrder ==
    /\ CompareDone =>
          /\ output = compareOutput(countries, year,
                                    [i \in DOMAIN countries |-> getHolidays(countries[i], year)])
          /\ \A i \in DOMAIN countries : output.countries[i].country = countries[i]
    /\ NextDone =>
          output = nextHolidayOutput(country, fromDate,
                                     <<getHolidays(country, year), getHolidays(country, year + 1)>>)

\* C10 witness: three different countries compared, the fetches completing in
\* the reverse of the input order
C10_Witness ==
    /\ CompareDone /\ Len(countries) = 3 /\ arrivals = <<3, 2, 1>>
    /\ Cardinality({countries[i] : i \in DOMAIN countries}) = 3

\* C10 witness for next-holiday: the following year's list arrived first
C10_WitnessNext == NextDone /\ arrivals = <<2, 1>> /\ output.nextHoliday # Null

(***************************************************************************)
(* Provider failures inside the year loops.                                *)
(***************************************************************************)
\* the first year a year loop fetches
FirstYear ==
    IF op = "add" THEN yearOfString(startDate) ELSE TallyStartYear(op, tz, startDate)

\* the dates the provider lists for the request's country in year y
DatesOfYear(y) == addDates({}, getHolidays(country, y))

\* C11: in the year loops of business-days (both variants) and of
\* add-business-days a failed fetch never aborts the request: the remaining
\* years are still fetched, and once the loop is over every year of the range
\* has contributed either all of its holidays (fetched) or none (failed).
C11_FailedYearIsSkipped ==
    (IsTally \/ op = "add") =>
        /\ pc # "failed"
        /\ pc \in {"loop", "done"} =>
              \A y \in FirstYear..endYear :
                  \/ DatesOfYear(y) \subseteq holidayDates
                  \/ DatesOfYear(y) \cap holidayDates = {}

(***************************************************************************)
(* Reversed ranges.                                                        *)
(***************************************************************************)
IsReversed == IsTally /\ StrLT(endDate, startDate)

\* C12: when endDate precedes startDate, both business-days variants either
\* reject the request or treat the range as empty: no day is visited, every
\* counter stays 0 and the returned tally has totalDays = businessDays =
\* weekendDays = holidayDays = 0; the tally of the reversed range is never
\* returned.
C12_ReversedRangeIsEmpty ==
    IsReversed =>
        /\ pc \in {"loop", "done"} =>
              /\ visited = << >>
              /\ totalDays = 0 /\ businessDays = 0 /\ weekendDays = 0 /\ holidayDays = 0
        /\ pc = "failed" => output.kind = "error"
        /\ pc = "done" =>
              /\ output.kind = "tally"
              /\ output.totalDays = 0 /\ output.businessDays = 0
              /\ output.weekendDays = 0 /\ output.holidayDays = 0

\* C12 witness: a tally returned for a range reversed by more than a day, the
\* days between its two dates holding a weekend day, with holidays fetched
C12_Witness ==
    /\ IsReversed /\ pc = "done" /\ output.kind = "tally"
    /\ holidayDates # {}
    /\ InclusiveDays(endDate, startDate) > 2
    /\ \E i \in 1..InclusiveDays(endDate, startDate) :
          CalendarWeekend(DaysOfRange(endDate, startDate)[i])

(***************************************************************************)
(* ISO-8601 weeks, by the standard's own wording: weeks run Monday to      *)
(* Sunday, and week 1 of a year is the week that holds its 4 January.      *)
(***************************************************************************)
WeekDone == op = "week" /\ pc = "done"

MondayOnOrBefore(day) == day - ((WeekDay(day) + 6) % 7)

FirstWeekStart(y) == MondayOnOrBefore(DayFromCivil(<<y, 1, 4>>))

ISOYearOf(day) ==
    CHOOSE y \in (YearFromDay(day) - 1)..(YearFromDay(day) + 1) :
        FirstWeekStart(y) <= day /\ day < FirstWeekStart(y + 1)

ISOWeekOf(day) == ((day - FirstWeekStart(ISOYearOf(day))) \div 7) + 1

\* C13: for every date handed to week-info as a YYYY-MM-DD string, getISOWeek
\* returns the ISO-8601 week number of that date: always in 1..53, 53 for
\* 2021-01-01, and 1 for a late-December date lying in the week of the next
\* year's first Thursday.
C13_ISOWeek ==
    (WeekDone /\ inputDate # NoDate) =>
        LET day == DayFromCivil(inputDate)
        IN  /\ output.isoWeek = ISOWeekOf(day)
            /\ output.isoWeek \in 1..53
            /\ inputDate = <<2021, 1, 1>> => output.isoWeek = 53
            /\ (inputDate[2] = 12 /\ day >= FirstWeekStart(inputDate[1] + 1))
                  => output.isoWeek = 1

(***************************************************************************)
(* The weekend test against the calendar date of the string.               *)
(***************************************************************************)
IsHolidayDone == op = "isHoliday" /\ pc = "done"

\* C14: for a YYYY-MM-DD string the weekend classification of is-holiday,
\* business-days and add-business-days is that of the calendar date the string
\* names, whatever the time zone of the process: isWeekend is true exactly for
\* a Saturday or Sunday, the tally counts exactly the Saturdays and Sundays of
\* the range, and the walk never returns a Saturday or Sunday.
C14_WeekendOfCalendarDate ==
    /\ IsHolidayDone =>
          /\ output.isWeekend = CalendarWeekend(inputDate)
          /\ output.isBusinessDay = (~output.isHoliday /\ ~CalendarWeekend(inputDate))
    /\ (IsTally /\ pc = "done" /\ ~StrLT(endDate, startDate)) =>
          output.weekendDays =
              Cardinality({ i \in 1..InclusiveDays(startDate, endDate) :
                              CalendarWeekend(DaysOfRange(startDate, endDate)[i]) })
    /\ AddDone => ~CalendarWeekend(output.resultDate)

(***************************************************************************)
(* Termination of the add-business-days walk.                              *)
(***************************************************************************)
\* C15: once the add-business-days walk is entered, for every start date,
\* every daysToAdd and every fetched holiday set (the empty one left by three
\* failed fetches included), the handler eventually returns a result with
\* businessDaysAdded equal to daysToAdd.
C15_WalkTerminates ==
    (op = "add" /\ pc = "loop")
        ~> (AddDone /\ output.kind = "added" /\ businessDaysAdded = daysToAdd)

\* C15 witness: a result returned after all three fetches failed, for the
\* longest walk the schema admits
C15_Witness ==
    /\ AddDone /\ output.kind = "added" /\ businessDaysAdded = daysToAdd
    /\ country \in AddCountries /\ holidayDates = {} /\ daysToAdd = MaxDaysToAdd

\* C15 witness: a result returned from the calendar with no business day in
\* the fetched years
C15_WitnessDense == AddDone /\ country = "ZZ" /\ year > endYear /\ holidayDates # {}

====
